---- MODULE Spec2Model ----
(***************************************************************************)
(* Model of the Haystack client of niagara_mcp.py: endpoint resolution,    *)
(* the per-operation request dispatch of execute_op, and the Zinc grid     *)
(* decoder (parse_zinc_response / parse_zinc_value).                       *)
(*                                                                         *)
(* Text is a sequence of one-character strings.  Python dicts are          *)
(* functions; Python values are tagged records.                            *)
(***************************************************************************)
EXTENDS Integers, Sequences, FiniteSets, TLC

VARIABLES
    config,     \* NiagaraConfig (the module-level config)
    base_url,   \* HaystackClient.base_url
    client,     \* HaystackClient.client: auth and default headers
    pc,         \* position of the current execute_op call
    call,       \* the call's arguments: op and params
    wire,       \* requests the call has sent so far, in order
    replies,    \* what came back for each request sent
    result,     \* what execute_op returned or raised
    text,       \* input of parse_zinc_response
    grid,       \* output of parse_zinc_response
    gpc,        \* position of the decoder run
    cell,       \* input of parse_zinc_value
    scalar,     \* output of parse_zinc_value
    spc,        \* position of the scalar decoder run
    failed,     \* calls so far that ended in a connection failure
    switched    \* changes of config.mode so far

vars == <<config, base_url, client, pc, call, wire, replies, result, text, grid, gpc,
          cell, scalar, spc, failed, switched>>

clientVars == <<config, base_url, client, pc, call, wire, replies, result>>
gridVars == <<text, grid, gpc>>
scalarVars == <<cell, scalar, spc>>
raceVars == <<failed, switched>>

(***************************************************************************)
(* Generic helpers                                                         *)
(***************************************************************************)
Range(s) == {s[i] : i \in 1..Len(s)}

SeqsUpTo(S, n) == UNION {[1..k -> S] : k \in 0..n}

StartsWith(s, p) == Len(s) >= Len(p) /\ SubSeq(s, 1, Len(p)) = p

EndsWith(s, p) == Len(s) >= Len(p) /\ SubSeq(s, Len(s) - Len(p) + 1, Len(s)) = p

Drop(s, n) == SubSeq(s, n + 1, Len(s))

EmptyMap == [k \in {} |-> <<>>]

\* largest number of keys in a params dict
MaxParams == 2

\* the double quote and the backtick (a name stands for the backtick character)
DQuote == "\""
Backtick == "BACKTICK"

\* characters Python's str.strip() removes
Whitespace == {" ", "\n", "\t", "\r"}

RECURSIVE LStrip(_)
LStrip(s) ==
    IF s # <<>> /\ s[1] \in Whitespace THEN LStrip(Tail(s)) ELSE s

RECURSIVE RStrip(_)
RStrip(s) ==
    IF s # <<>> /\ s[Len(s)] \in Whitespace
        THEN RStrip(SubSeq(s, 1, Len(s) - 1))
        ELSE s

\* str.strip()
Strip(s) == RStrip(LStrip(s))

\* str.split(sep): always at least one piece
RECURSIVE Split(_, _)
Split(s, sep) ==
    IF \E i \in 1..Len(s) : s[i] = sep
        THEN LET i == CHOOSE j \in 1..Len(s) :
                        s[j] = sep /\ \A k \in 1..(j - 1) : s[k] # sep
             IN  <<SubSeq(s, 1, i - 1)>> \o Split(Drop(s, i), sep)
        ELSE <<s>>

\* str.split(sep, 1): at most two pieces
Split1(s, sep) ==
    IF \E i \in 1..Len(s) : s[i] = sep
        THEN LET i == CHOOSE j \in 1..Len(s) :
                        s[j] = sep /\ \A k \in 1..(j - 1) : s[k] # sep
             IN  <<SubSeq(s, 1, i - 1), Drop(s, i)>>
        ELSE <<s>>

(***************************************************************************)
(* Python values                                                           *)
(***************************************************************************)
PyNone == [tag |-> "None"]
PyTrue == [tag |-> "bool", b |-> TRUE]
PyStr(s) == [tag |-> "str", s |-> s]
PyFloat(neg, whole, frac) == [tag |-> "float", neg |-> neg, whole |-> whole, frac |-> frac]
PyNumDict(v, u) == [tag |-> "dict", val |-> v, unit |-> u]

\* an exception leaving the function instead of a value
PyRaise(exc) == [tag |-> "raise", exc |-> exc]

(***************************************************************************)
(* float(): the literals made of a sign, decimal digits and one point.     *)
(* The value is kept as sign, integer part and fraction digits without     *)
(* trailing zeros, so "1", "1.0" and "01" are the same float.              *)
(***************************************************************************)
Digits == {"0", "1", "2", "3", "4", "5", "6", "7", "8", "9"}

DigitVal(c) ==
    CASE c = "0" -> 0 [] c = "1" -> 1 [] c = "2" -> 2 [] c = "3" -> 3
      [] c = "4" -> 4 [] c = "5" -> 5 [] c = "6" -> 6 [] c = "7" -> 7
      [] c = "8" -> 8 [] c = "9" -> 9

RECURSIVE DigitsVal(_)
DigitsVal(s) ==
    IF s = <<>> THEN 0
    ELSE 10 * DigitsVal(SubSeq(s, 1, Len(s) - 1)) + DigitVal(s[Len(s)])

RECURSIVE DropTrailingZeros(_)
DropTrailingZeros(s) ==
    IF s # <<>> /\ s[Len(s)] = "0"
        THEN DropTrailingZeros(SubSeq(s, 1, Len(s) - 1))
        ELSE s

Unsigned(s) == IF s # <<>> /\ s[1] \in {"+", "-"} THEN Tail(s) ELSE s

IsFloatLiteral(s) ==
    LET u == Unsigned(Strip(s))
        parts == Split1(u, ".")
    IN  /\ \A i \in 1..Len(parts) : Range(parts[i]) \subseteq Digits
        /\ \E i \in 1..Len(parts) : parts[i] # <<>>

ParseFloat(s) ==
    LET t == Strip(s)
        u == Unsigned(t)
        parts == Split1(u, ".")
        whole == DigitsVal(parts[1])
        frac == IF Len(parts) > 1 THEN DropTrailingZeros(parts[2]) ELSE <<>>
        zero == whole = 0 /\ frac = <<>>
    IN  PyFloat(t[1] = "-" /\ ~zero, whole, frac)

(***************************************************************************)
(* parse_zinc_value                                                        *)
(***************************************************************************)
\* the marker token of line 127, code point by code point
CheckMark == <<"U+00E2", "U+0153", "U+201C">>

\* float(s): the number, or ValueError
Float(s) == IF IsFloatLiteral(s) THEN ParseFloat(s) ELSE PyRaise("ValueError")

\* variant: the try of lines 133-138 has no except clause
ParseZincNumberNoExcept(value) ==
    LET parts == Split1(Drop(value, 2), " ")
        num_val == Float(parts[1])
    IN  IF num_val.tag = "raise" THEN num_val
        ELSE IF Len(parts) > 1 /\ parts[2] # <<>>
            THEN PyNumDict(num_val, parts[2])
        ELSE num_val

\* lines 131-138: the except clause returns the cell as it came
ParseZincNumber(value) ==
    LET parts == Split1(Drop(value, 2), " ")
        num_val == Float(parts[1])
    IN  IF num_val.tag = "raise" THEN PyStr(value)
        ELSE IF Len(parts) > 1 /\ parts[2] # <<>>
            THEN PyNumDict(num_val, parts[2])
        ELSE num_val

ParseZincValue(value) ==
    IF value = <<>> \/ value = <<"N">> THEN PyNone
    ELSE IF StartsWith(value, <<DQuote>>) /\ EndsWith(value, <<DQuote>>)
        THEN PyStr(SubSeq(value, 2, Len(value) - 1))
    ELSE IF StartsWith(value, <<Backtick>>) /\ EndsWith(value, <<Backtick>>)
        THEN PyStr(SubSeq(value, 2, Len(value) - 1))
    ELSE IF StartsWith(value, <<"r", ":">>) THEN PyStr(value)
    ELSE IF value = <<"m", ":">> \/ value = CheckMark THEN PyTrue
    ELSE IF StartsWith(value, <<"n", ":">>) THEN ParseZincNumber(value)
    ELSE IF \/ StartsWith(value, <<"d", ":">>)
            \/ StartsWith(value, <<"t", ":">>)
            \/ StartsWith(value, <<"t", "s", ":">>)
        THEN PyStr(Drop(value, 2))
    ELSE IF StartsWith(value, <<"s", ":">>) THEN PyStr(Drop(value, 2))
    ELSE PyStr(value)

(***************************************************************************)
(* parse_zinc_response: the header scanner                                 *)
(***************************************************************************)
HeaderStart == [headers |-> <<>>, current_header |-> <<>>, in_quotes |-> FALSE]

\* one turn of the loop of lines 167-174
HeaderStep(st, char) ==
    IF char = DQuote THEN [st EXCEPT !.in_quotes = ~st.in_quotes]
    ELSE IF char = "," /\ ~st.in_quotes
        THEN [st EXCEPT !.headers = Append(st.headers, Strip(st.current_header)),
                        !.current_header = <<>>]
    ELSE [st EXCEPT !.current_header = Append(st.current_header, char)]

\* the scanner's state after the characters of line
RECURSIVE HeaderScan(_)
HeaderScan(line) ==
    IF line = <<>> THEN HeaderStart
    ELSE HeaderStep(HeaderScan(SubSeq(line, 1, Len(line) - 1)), line[Len(line)])

ParseHeaders(header_line) ==
    LET st == HeaderScan(header_line)
    IN  IF st.current_header # <<>>
            THEN Append(st.headers, Strip(st.current_header))
            ELSE st.headers

(***************************************************************************)
(* parse_zinc_response: the data-row scanner                               *)
(***************************************************************************)
RowStart ==
    [values |-> <<>>, current_value |-> <<>>, in_quotes |-> FALSE, in_backticks |-> FALSE]

\* variant: the scanner tracks double quotes only
RowStepQuotesOnly(st, char) ==
    IF char = DQuote
        THEN [st EXCEPT !.in_quotes = ~st.in_quotes,
                        !.current_value = Append(st.current_value, char)]
    ELSE IF char = "," /\ ~st.in_quotes
        THEN [st EXCEPT !.values = Append(st.values, Strip(st.current_value)),
                        !.current_value = <<>>]
    ELSE [st EXCEPT !.current_value = Append(st.current_value, char)]

\* variant: two independent toggles, each flipped by its own delimiter
RowStepIndependentToggles(st, char) ==
    IF char = DQuote
        THEN [st EXCEPT !.in_quotes = ~st.in_quotes,
                        !.current_value = Append(st.current_value, char)]
    ELSE IF char = Backtick
        THEN [st EXCEPT !.in_backticks = ~st.in_backticks,
                        !.current_value = Append(st.current_value, char)]
    ELSE IF char = "," /\ ~st.in_quotes /\ ~st.in_backticks
        THEN [st EXCEPT !.values = Append(st.values, Strip(st.current_value)),
                        !.current_value = <<>>]
    ELSE [st EXCEPT !.current_value = Append(st.current_value, char)]

\* one turn of the loop of lines 190-201
RowStep(st, char) ==
    IF char = DQuote /\ ~st.in_backticks
        THEN [st EXCEPT !.in_quotes = ~st.in_quotes,
                        !.current_value = Append(st.current_value, char)]
    ELSE IF char = Backtick /\ ~st.in_quotes
        THEN [st EXCEPT !.in_backticks = ~st.in_backticks,
                        !.current_value = Append(st.current_value, char)]
    ELSE IF char = "," /\ ~st.in_quotes /\ ~st.in_backticks
        THEN [st EXCEPT !.values = Append(st.values, Strip(st.current_value)),
                        !.current_value = <<>>]
    ELSE [st EXCEPT !.current_value = Append(st.current_value, char)]

RECURSIVE RowScan(_)
RowScan(line) ==
    IF line = <<>> THEN RowStart
    ELSE RowStep(RowScan(SubSeq(line, 1, Len(line) - 1)), line[Len(line)])

ParseValues(line) ==
    LET st == RowScan(line)
    IN  IF st.current_value # <<>>
            THEN Append(st.values, Strip(st.current_value))
            ELSE st.values

\* variant: a column without a value gets no key
MakeRowNoPadding(headers, values) ==
    [h \in {headers[i] : i \in 1..Len(headers) \cap 1..Len(values)} |->
        LET i == CHOOSE j \in 1..Len(headers) \cap 1..Len(values) :
                    headers[j] = h
                    /\ \A k \in (j + 1)..Len(headers) : k <= Len(values) => headers[k] # h
        IN  ParseZincValue(values[i])]

\* variant: a header name that comes again keeps its first value
MakeRowFirstWins(headers, values) ==
    [h \in Range(headers) |->
        LET i == CHOOSE j \in 1..Len(headers) :
                    headers[j] = h /\ \A k \in 1..(j - 1) : headers[k] # h
        IN  IF i <= Len(values) THEN ParseZincValue(values[i]) ELSE PyNone]

\* the row dictionary of lines 206-211: a later duplicate header overwrites
MakeRow(headers, values) ==
    [h \in Range(headers) |->
        LET i == CHOOSE j \in 1..Len(headers) :
                    headers[j] = h /\ \A k \in (j + 1)..Len(headers) : headers[k] # h
        IN  IF i <= Len(values) THEN ParseZincValue(values[i]) ELSE PyNone]

\* variant: blank lines are decoded like any other line
RECURSIVE ParseRowsKeepBlank(_, _)
ParseRowsKeepBlank(headers, data_lines) ==
    IF data_lines = <<>> THEN <<>>
    ELSE <<MakeRow(headers, ParseValues(Head(data_lines)))>>
            \o ParseRowsKeepBlank(headers, Tail(data_lines))

\* the loop of lines 180-212 over lines[2:]
RECURSIVE ParseRows(_, _)
ParseRows(headers, data_lines) ==
    IF data_lines = <<>> THEN <<>>
    ELSE IF Strip(Head(data_lines)) = <<>>
        THEN ParseRows(headers, Tail(data_lines))
    ELSE <<MakeRow(headers, ParseValues(Head(data_lines)))>>
            \o ParseRows(headers, Tail(data_lines))

\* variant: the text is split into lines without being trimmed first
ParseZincResponseNoStrip(t) ==
    LET lines == Split(t, "\n")
    IN  IF Len(lines) < 2
            THEN [tag |-> "error", error |-> "Invalid Zinc response", raw |-> t]
            ELSE [tag |-> "grid",
                  meta |-> [ver |-> lines[1]],
                  cols |-> ParseHeaders(lines[2]),
                  rows |-> ParseRows(ParseHeaders(lines[2]), Drop(lines, 2))]

\* lines 151-218
ParseZincResponse(t) ==
    LET lines == Split(Strip(t), "\n")
    IN  IF Len(lines) < 2
            THEN [tag |-> "error", error |-> "Invalid Zinc response", raw |-> t]
            ELSE [tag |-> "grid",
                  meta |-> [ver |-> lines[1]],
                  cols |-> ParseHeaders(lines[2]),
                  rows |-> ParseRows(ParseHeaders(lines[2]), Drop(lines, 2))]

(***************************************************************************)
(* NiagaraConfig and the configurations the client is built from           *)
(***************************************************************************)
DeploymentMode == {"local", "relay", "hybrid"}

\* an Optional[str] that is None
NoneStr == "None"

RelayUrl == "https://relay.example/haystack"
RelayToken == "relay-token"
Host == "localhost"
Port == "8080"
HaystackPath == "/haystack"
Username == "admin"
Password == "secret"

\* the configurations load_config can return (timeout and verify_ssl do not
\* reach the request shape and keep their defaults)
Configs ==
    [mode : DeploymentMode,
     relay_url : {NoneStr, "", RelayUrl},
     relay_token : {NoneStr, RelayToken},
     host : {Host},
     port : {Port},
     username : {"", Username},
     password : {Password},
     haystack_path : {HaystackPath},
     use_https : BOOLEAN]

\* Python truthiness of an Optional[str]
TruthyStr(s) == s # NoneStr /\ s # ""

(***************************************************************************)
(* HaystackClient._get_base_url and _create_client.  A URL or a header     *)
(* value built by an f-string is the sequence of its pieces.               *)
(***************************************************************************)
GetBaseUrl(cfg) ==
    IF cfg.mode = "relay" /\ TruthyStr(cfg.relay_url)
        THEN <<cfg.relay_url>>
        ELSE <<IF cfg.use_https THEN "https" ELSE "http", "://",
               cfg.host, ":", cfg.port, cfg.haystack_path>>

NoAuth == [kind |-> "none"]
BasicAuth(u, p) == [kind |-> "basic", username |-> u, password |-> p]

DefaultHeaders ==
    [h \in {"Accept", "User-Agent"} |->
        IF h = "Accept" THEN <<"text/zinc, application/json, text/plain">>
        ELSE <<"Niagara-MCP/1.0">>]

\* headers | {name: value}
WithHeader(headers, name, value) ==
    [h \in DOMAIN headers \cup {name} |-> IF h = name THEN value ELSE headers[h]]

CreateClient(cfg) ==
    IF cfg.mode = "relay" /\ TruthyStr(cfg.relay_token)
        THEN [auth |-> NoAuth,
              headers |-> WithHeader(DefaultHeaders, "Authorization",
                                     <<"Bearer ", cfg.relay_token>>)]
    ELSE IF cfg.username # ""
        THEN [auth |-> BasicAuth(cfg.username, cfg.password), headers |-> DefaultHeaders]
    ELSE [auth |-> NoAuth, headers |-> DefaultHeaders]

(***************************************************************************)
(* execute_op: arguments                                                   *)
(***************************************************************************)
FallbackOps == {"watchSub", "watchPoll", "watchUnsub", "pointWrite"}

\* the operations of the dispatch chain, and one name outside it
Ops == {"about", "ops", "formats", "read", "hisRead", "nav", "invokeAction"} \cup FallbackOps

ParamKeys == {"filter", "limit", "id", "range", "navId"}

ParamValue(k) ==
    CASE k = "filter" -> "point"
      [] k = "limit" -> "10"
      [] k = "id" -> "@p1"
      [] k = "range" -> "today"
      [] k = "navId" -> "nav1"

DictOver(keys) == [k \in keys |-> ParamValue(k)]

\* params: None, or a dict
NoParams == [present |-> FALSE, dict |-> EmptyMap]
SomeParams(d) == [present |-> TRUE, dict |-> d]

ParamChoices ==
    {NoParams} \cup
    {SomeParams(DictOver(ks)) : ks \in {k \in SUBSET ParamKeys : Cardinality(k) <= MaxParams}}

\* Python truthiness of params: not None and not empty
Truthy(params) == params.present /\ DOMAIN params.dict # {}

Has(params, k) == k \in DOMAIN params.dict

Pick(params, keys) == [k \in DOMAIN params.dict \cap keys |-> params.dict[k]]

(***************************************************************************)
(* execute_op: the requests                                                *)
(***************************************************************************)
NoBody == [enc |-> "none", data |-> EmptyMap]
FormBody(d) == [enc |-> "form", data |-> d]

\* client.get(url, params=query): the client's auth and headers go with it
Get(cl, url, query) ==
    [method |-> "GET", url |-> url, query |-> query, body |-> NoBody,
     auth |-> cl.auth, headers |-> cl.headers]

\* client.post(url, data=data, headers=extra)
Post(cl, url, data, name, value) ==
    [method |-> "POST", url |-> url, query |-> EmptyMap, body |-> FormBody(data),
     auth |-> cl.auth, headers |-> WithHeader(cl.headers, name, value)]

\* line 223
Url(base, op) == base \o <<"/", op>>

\* the query parameters of the first request (lines 230-290)
QueryParams(op, params) ==
    IF op \in {"about", "ops", "formats"} THEN EmptyMap
    ELSE IF op = "read"
        THEN IF Truthy(params) /\ Has(params, "filter")
                THEN Pick(params, {"filter", "limit"})
                ELSE EmptyMap
    ELSE IF op = "hisRead" THEN Pick(params, {"id", "range"})
    ELSE IF op = "nav"
        THEN IF Truthy(params) /\ Has(params, "navId")
                THEN Pick(params, {"navId"})
                ELSE EmptyMap
    ELSE IF Truthy(params) THEN params.dict
    ELSE EmptyMap

\* variant: hisRead is refused only when params is None
RaisesValueErrorOnNoneOnly(op, params) == op = "hisRead" /\ ~params.present

\* line 264: hisRead without params raises before anything is sent
RaisesValueError(op, params) == op = "hisRead" /\ ~Truthy(params)

FirstRequest(cl, base, op, params) == Get(cl, Url(base, op), QueryParams(op, params))

\* variant: a failed connection is answered by sending the request again
NeedsPostFallbackOnConnectError(op, params, sent, reply) ==
    /\ sent = 1
    /\ \/ reply.kind = "connect_error"
       \/ /\ op \in FallbackOps
          /\ Truthy(params)
          /\ reply.kind = "http"
          /\ reply.status = 405

\* variant: the 405 check is a loop, not a single if
NeedsPostFallbackLoop(op, params, sent, reply) ==
    /\ op \in FallbackOps
    /\ Truthy(params)
    /\ reply.kind = "http"
    /\ reply.status = 405

\* variant: the POST is tried whether or not the call had params
NeedsPostFallbackAnyParams(op, params, sent, reply) ==
    /\ op \in FallbackOps
    /\ sent = 1
    /\ reply.kind = "http"
    /\ reply.status = 405

\* lines 277-282: the POST is tried after the GET of a fallback operation
\* that had params and came back 405
NeedsPostFallback(op, params, sent, reply) ==
    /\ op \in FallbackOps
    /\ Truthy(params)
    /\ sent = 1
    /\ reply.kind = "http"
    /\ reply.status = 405

\* variant: the POST carries the parameters in the query string again
FallbackRequestAsQuery(cl, base, op, params) ==
    [Get(cl, Url(base, op), params.dict) EXCEPT !.method = "POST"]

FallbackRequest(cl, base, op, params) ==
    Post(cl, Url(base, op), params.dict,
         "Content-Type", <<"application/x-www-form-urlencoded">>)

(***************************************************************************)
(* execute_op: replies and results                                         *)
(***************************************************************************)
ZincBody == <<"v", "e", "r", ":", "3", "\n", "a", ",", "b", "\n", "N", ",", "s", ":", "x">>
JsonBody == <<"{", "}">>
PlainBody == <<"o", "k">>

\* what the peer can answer: no connection, no answer in time, or a response
Replies ==
    {[kind |-> "connect_error"], [kind |-> "timeout"]}
    \cup [kind : {"http"}, status : {200},
          content_type : {"application/json", "text/zinc", "text/plain"},
          body : {ZincBody, JsonBody, PlainBody}]
    \cup [kind : {"http"}, status : {404, 405, 415, 500},
          content_type : {"text/plain"}, body : {PlainBody}]

Returned(v) == [ok |-> TRUE, value |-> v]
Raised(exc, msg) == [ok |-> FALSE, exc |-> exc, msg |-> msg]

\* response.json(), on the bodies of Replies
IsJson(body) == body = JsonBody
JsonValue(body) == [tag |-> "json", dict |-> EmptyMap]

\* lines 299-315
\* variant: only the content type decides; the body is not looked at
DecodeResponseNoSniff(reply) ==
    IF reply.content_type = "application/json"
        THEN IF IsJson(reply.body)
                THEN Returned(JsonValue(reply.body))
                ELSE Raised("JSONDecodeError", [text |-> reply.body])
    ELSE IF reply.content_type = "text/zinc"
        THEN Returned(ParseZincResponse(reply.body))
    ELSE Returned([tag |-> "unknown", response |-> reply.body, format |-> "unknown"])

\* lines 299-315
DecodeResponse(reply) ==
    IF reply.content_type = "application/json"
        THEN IF IsJson(reply.body)
                THEN Returned(JsonValue(reply.body))
                ELSE Raised("JSONDecodeError", [text |-> reply.body])
    ELSE IF reply.content_type = "text/zinc" \/ StartsWith(reply.body, <<"v", "e", "r", ":">>)
        THEN Returned(ParseZincResponse(reply.body))
    ELSE Returned([tag |-> "unknown", response |-> reply.body, format |-> "unknown"])

\* variant: the status of the reply is never looked at
FinishIgnoresStatus(reply) ==
    IF reply.kind = "connect_error" THEN Raised("ConnectError", [text |-> <<>>])
    ELSE IF reply.kind = "timeout" THEN Raised("TimeoutException", [text |-> <<>>])
    ELSE DecodeResponse(reply)

\* lines 292-322 on the last reply of the call
Finish(reply) ==
    IF reply.kind = "connect_error" THEN Raised("ConnectError", [text |-> <<>>])
    ELSE IF reply.kind = "timeout" THEN Raised("TimeoutException", [text |-> <<>>])
    ELSE IF reply.status = 415
        THEN Raised("Exception", [text |-> <<"Server expects different content type">>])
    ELSE IF reply.status \notin 200..299
        THEN Raised("Exception", [status |-> reply.status, text |-> reply.body])
    ELSE DecodeResponse(reply)

\* lines 317-322: both handlers log and re-raise; the configuration, the base
\* URL and the client stay what they were
\* variant: any failed call switches the configuration to the relay
ConfigAfterSwitchToRelay(cfg, res) ==
    IF res.ok THEN cfg ELSE [cfg EXCEPT !.mode = "relay"]

\* variant: a failed connection in Hybrid mode switches the mode to Relay
\* and leaves the base URL and the client of __init__ in place
ConfigAfterFailover(cfg, res) ==
    IF ~res.ok /\ res.exc = "ConnectError" /\ cfg.mode = "hybrid"
        THEN [cfg EXCEPT !.mode = "relay"]
        ELSE cfg

ConfigAfter(cfg, res) == cfg
BaseUrlAfter(cfg, base, res) == base
ClientAfter(cfg, cl, res) == cl

NoCall == [op |-> "", params |-> NoParams]
NoResult == [ok |-> FALSE, exc |-> "", msg |-> [text |-> <<>>]]

(***************************************************************************)
(* The client: one execute_op call at a time (the call never awaits, so    *)
(* calls do not interleave)                                                *)
(***************************************************************************)
NoText == <<>>
NoGrid == [tag |-> "none"]
NoCell == <<>>
NoScalar == [tag |-> "none"]

Init ==
    /\ config \in Configs
    /\ base_url = GetBaseUrl(config)
    /\ client = CreateClient(config)
    /\ pc = "idle"
    /\ call = NoCall
    /\ wire = <<>>
    /\ replies = <<>>
    /\ result = NoResult
    /\ text = NoText
    /\ grid = NoGrid
    /\ gpc = "off"
    /\ cell = NoCell
    /\ scalar = NoScalar
    /\ spc = "off"
    /\ failed = 0
    /\ switched = 0

\* execute_op is entered: the first request goes out, or hisRead is refused
Invoke(op, params) ==
    /\ pc = "idle"
    /\ call' = [op |-> op, params |-> params]
    /\ replies' = <<>>
    /\ IF RaisesValueError(op, params)
          THEN /\ wire' = <<>>
               /\ result' = Raised("ValueError",
                                   [text |-> <<"hisRead requires id and range parameters">>])
               /\ pc' = "done"
          ELSE /\ wire' = <<FirstRequest(client, base_url, op, params)>>
               /\ result' = NoResult
               /\ pc' = "await"
    /\ UNCHANGED <<config, base_url, client>>
    /\ UNCHANGED <<gridVars, scalarVars>>

\* the peer answers the request last sent (or fails to)
Respond(reply) ==
    /\ pc = "await"
    /\ replies' = Append(replies, reply)
    /\ IF NeedsPostFallback(call.op, call.params, Len(wire), reply)
          THEN /\ wire' = Append(wire, FallbackRequest(client, base_url, call.op, call.params))
               /\ pc' = "await"
               /\ UNCHANGED <<result, config, base_url, client>>
          ELSE /\ result' = Finish(reply)
               /\ pc' = "done"
               /\ config' = ConfigAfter(config, Finish(reply))
               /\ base_url' = BaseUrlAfter(config, base_url, Finish(reply))
               /\ client' = ClientAfter(config, client, Finish(reply))
               /\ UNCHANGED wire
    /\ UNCHANGED call
    /\ UNCHANGED <<gridVars, scalarVars>>

\* the caller has the result; the client is ready for the next call
Return ==
    /\ pc = "done"
    /\ pc' = "idle"
    /\ call' = NoCall
    /\ wire' = <<>>
    /\ replies' = <<>>
    /\ result' = NoResult
    /\ UNCHANGED <<config, base_url, client>>
    /\ UNCHANGED <<gridVars, scalarVars>>

Next ==
    \/ /\ \E op \in Ops, params \in ParamChoices : Invoke(op, params)
       /\ UNCHANGED raceVars
    \/ /\ \E reply \in Replies : Respond(reply)
       /\ UNCHANGED raceVars
    \/ /\ Return
       /\ UNCHANGED raceVars

Spec == Init /\ [][Next]_vars

(***************************************************************************)
(* The grid decoder on its own: parse_zinc_response applied to a text      *)
(***************************************************************************)
\* most characters the header line and the data part have together
MaxTextLen == 5

VersionLine == <<"v", "e", "r", ":", "3">>
HeaderChars == {"a", ",", DQuote, " "}
DataChars == {"a", ",", DQuote, Backtick, " ", "\n"}

\* a version line, a header line and the data lines, joined by newlines
GridText(header, data) == VersionLine \o <<"\n">> \o header \o <<"\n">> \o data

InitGrid ==
    /\ config = [mode |-> "local", relay_url |-> NoneStr, relay_token |-> NoneStr,
                 host |-> Host, port |-> Port, username |-> "", password |-> Password,
                 haystack_path |-> HaystackPath, use_https |-> FALSE]
    /\ base_url = GetBaseUrl(config)
    /\ client = CreateClient(config)
    /\ pc = "idle"
    /\ call = NoCall
    /\ wire = <<>>
    /\ replies = <<>>
    /\ result = NoResult
    /\ \E n \in 0..MaxTextLen, k \in 0..MaxTextLen :
           /\ n + k <= MaxTextLen
           /\ \E h \in [1..n -> HeaderChars], d \in [1..k -> DataChars] :
                  text = GridText(h, d)
    /\ grid = NoGrid
    /\ gpc = "ready"
    /\ cell = NoCell
    /\ scalar = NoScalar
    /\ spc = "off"
    /\ failed = 0
    /\ switched = 0

Decode ==
    /\ gpc = "ready"
    /\ grid' = ParseZincResponse(text)
    /\ gpc' = "decoded"
    /\ UNCHANGED text
    /\ UNCHANGED <<clientVars, scalarVars, raceVars>>

NextGrid == Decode

SpecGrid == InitGrid /\ [][NextGrid]_vars

(***************************************************************************)
(* Callers that race: the one client object of line 329 in Hybrid mode,    *)
(* every call failing at connection level.  execute_op has no await, so a  *)
(* call that has started runs to its end before another caller's call can  *)
(* start: the interleavings are the orders in which whole calls run.       *)
(***************************************************************************)
\* most calls that fail in one behaviour
MaxFailed == 2

RaceReplies == {[kind |-> "connect_error"]}

InitRace ==
    /\ config \in {cfg \in Configs : cfg.mode = "hybrid"}
    /\ base_url = GetBaseUrl(config)
    /\ client = CreateClient(config)
    /\ pc = "idle"
    /\ call = NoCall
    /\ wire = <<>>
    /\ replies = <<>>
    /\ result = NoResult
    /\ text = NoText
    /\ grid = NoGrid
    /\ gpc = "off"
    /\ cell = NoCell
    /\ scalar = NoScalar
    /\ spc = "off"
    /\ failed = 0
    /\ switched = 0

\* the next caller's call starts
InvokeRace(op, params) ==
    /\ failed < MaxFailed
    /\ Invoke(op, params)
    /\ UNCHANGED raceVars

\* its request fails; the except clauses of lines 317-322 run
RespondRace(reply) ==
    /\ Respond(reply)
    /\ failed' = failed + 1
    /\ switched' = IF config'.mode # config.mode THEN switched + 1 ELSE switched

ReturnRace ==
    /\ Return
    /\ UNCHANGED raceVars

NextRace ==
    \/ \E op \in Ops, params \in ParamChoices : InvokeRace(op, params)
    \/ \E reply \in RaceReplies : RespondRace(reply)
    \/ ReturnRace

SpecRace == InitRace /\ [][NextRace]_vars

(***************************************************************************)
(* The scalar decoder on its own: parse_zinc_value applied to a cell       *)
(***************************************************************************)
\* most characters a cell has after its prefix
MaxCellLen == 3

\* how a cell starts: the prefixes of the rules, one unknown prefix, a
\* delimiter, the marker token, or nothing
CellPrefixes ==
    {<<>>, <<"r", ":">>, <<"m", ":">>, <<"n", ":">>, <<"d", ":">>, <<"t", ":">>,
     <<"t", "s", ":">>, <<"s", ":">>, <<"x", ":">>, <<DQuote>>, <<Backtick>>, CheckMark}

CellChars == {"1", "0", ".", "-", " ", "x", ":", "N", DQuote, Backtick}

\* the client at rest, as HaystackClient(config) leaves it
ClientAtRest ==
    /\ config = [mode |-> "local", relay_url |-> NoneStr, relay_token |-> NoneStr,
                 host |-> Host, port |-> Port, username |-> "", password |-> Password,
                 haystack_path |-> HaystackPath, use_https |-> FALSE]
    /\ base_url = GetBaseUrl(config)
    /\ client = CreateClient(config)
    /\ pc = "idle"
    /\ call = NoCall
    /\ wire = <<>>
    /\ replies = <<>>
    /\ result = NoResult
    /\ failed = 0
    /\ switched = 0

InitScalar ==
    /\ ClientAtRest
    /\ text = NoText
    /\ grid = NoGrid
    /\ gpc = "off"
    /\ \E p \in CellPrefixes, k \in 0..MaxCellLen :
           \E rest \in [1..k -> CellChars] : cell = p \o rest
    /\ scalar = NoScalar
    /\ spc = "ready"

DecodeCell ==
    /\ spc = "ready"
    /\ scalar' = ParseZincValue(cell)
    /\ spc' = "decoded"
    /\ UNCHANGED cell
    /\ UNCHANGED <<clientVars, gridVars, raceVars>>

NextScalar == DecodeCell

SpecScalar == InitScalar /\ [][NextScalar]_vars

(***************************************************************************)
(* Properties of the client                                                *)
(***************************************************************************)
DirectBaseUrl(cfg) ==
    <<IF cfg.use_https THEN "https" ELSE "http", "://", cfg.host, ":", cfg.port,
      cfg.haystack_path>>

ConnectFailed(reply) == reply.kind = "connect_error"

IsStatus(reply, n) == reply.kind = "http" /\ reply.status = n

\* C1: Hybrid failover. A call made in Hybrid mode with a relay URL configured,
\* whose first (direct) request failed at connection level, ends with the mode
\* Relay and with exactly one more request, sent to the relay; when the relay
\* answers that request with success, the caller gets a successful result.
C1_HybridFailover ==
    ( /\ pc = "done"
      /\ config.mode # "local"
      /\ TruthyStr(config.relay_url)
      /\ replies # <<>>
      /\ ConnectFailed(replies[1])
      /\ wire[1].url = Url(DirectBaseUrl(config), call.op) )
    => /\ config.mode = "relay"
       /\ Len(wire) = 2
       /\ StartsWith(wire[2].url, <<config.relay_url>>)
       /\ (Len(replies) = 2 /\ IsStatus(replies[2], 200) => result.ok)

\* C2: Failover boundary. In Local or Relay mode, when a request fails at
\* connection level the call ends at once with that failure: no request is
\* sent after the failed one (a failed first request leaves exactly one
\* request sent) and the configuration, mode included, is unchanged.
C2_FailurePropagates ==
    [][ ( /\ pc = "await"
          /\ config.mode \in {"local", "relay"}
          /\ replies' = Append(replies, [kind |-> "connect_error"]) )
        => /\ pc' = "done"
           /\ result' = Raised("ConnectError", [text |-> <<>>])
           /\ wire' = wire
           /\ (replies = <<>> => Len(wire') = 1)
           /\ config' = config ]_vars

C2_Witness ==
    /\ pc = "done"
    /\ config.mode = "relay"
    /\ TruthyStr(config.relay_url)
    /\ Len(wire) = 1
    /\ Len(replies) = 1
    /\ ConnectFailed(replies[1])
    /\ ~result.ok

\* C3: In every step the configuration is unchanged, or only its mode
\* changes, from Hybrid to Relay: Local stays Local, Relay stays Relay.
C3_OnlyHybridToRelay ==
    [][ \/ config' = config
        \/ /\ config.mode = "hybrid"
           /\ config' = [config EXCEPT !.mode = "relay"] ]_vars

\* a call that failed at connection level has ended in a mode other than Hybrid
C3_Witness ==
    /\ pc = "done"
    /\ config.mode = "local"
    /\ replies # <<>>
    /\ ConnectFailed(replies[Len(replies)])
    /\ ~result.ok

\* C4: For watchSub, watchPoll, watchUnsub and pointWrite: once the initial
\* GET carrying the parameters as its query string has been answered 405,
\* exactly one POST has been sent, to the same URL, with the same parameters
\* form-encoded and the form content type; when that POST is answered 405 too
\* the call has failed with the HTTP 405 error and two requests were sent.
C4_PostFallbackOnce ==
    ( /\ call.op \in FallbackOps
      /\ replies # <<>>
      /\ wire[1].method = "GET"
      /\ DOMAIN wire[1].query # {}
      /\ IsStatus(replies[1], 405) )
    => /\ Len(wire) = 2
       /\ wire[1].query = call.params.dict
       /\ wire[2].method = "POST"
       /\ wire[2].url = wire[1].url
       /\ wire[2].query = EmptyMap
       /\ wire[2].body = FormBody(call.params.dict)
       /\ "Content-Type" \in DOMAIN wire[2].headers
       /\ wire[2].headers["Content-Type"] = <<"application/x-www-form-urlencoded">>
       /\ (Len(replies) = 2 /\ IsStatus(replies[2], 405) =>
              /\ pc = "done"
              /\ result = Raised("Exception", [status |-> 405, text |-> replies[2].body]))

C4_Witness ==
    /\ pc = "done"
    /\ call.op = "pointWrite"
    /\ Len(wire) = 2
    /\ Len(replies) = 2
    /\ IsStatus(replies[1], 405)
    /\ IsStatus(replies[2], 405)
    /\ ~result.ok

\* C5: One call sends at most two requests, and the second is never followed
\* by another: once it is answered or has failed, the call has ended.
C5_AtMostOneRetry ==
    /\ Len(wire) <= 2
    /\ Len(replies) <= Len(wire)
    /\ (Len(wire) = 2 /\ Len(replies) = 2 => pc = "done")
    /\ (pc = "await" => Len(replies) = Len(wire) - 1)

\* the retried request failed as well
C5_Witness ==
    /\ pc = "done"
    /\ Len(wire) = 2
    /\ Len(replies) = 2
    /\ replies[2].kind \in {"connect_error", "timeout"}
    /\ ~result.ok

\* C6: In Relay mode with a relay URL, every call is sent as a single POST to
\* the relay endpoint itself with a JSON body; no GET and no per-operation URL
\* is used.
C6_RelayWrapsAsPost ==
    ( /\ config.mode = "relay"
      /\ TruthyStr(config.relay_url)
      /\ wire # <<>> )
    => /\ Len(wire) = 1
       /\ wire[1].method = "POST"
       /\ wire[1].url = <<config.relay_url>>
       /\ wire[1].body.enc = "json"

\* C7: Endpoint resolution, as seen on every request sent. (a) Relay mode with
\* a relay URL: the URL is under the relay URL, with the bearer token when a
\* relay token is configured and otherwise no auth at all. (b) Every other
\* case: the URL is under scheme://host:port/apiPath, with basic auth when a
\* username is configured and otherwise none.
C7_EndpointResolution ==
    \A i \in 1..Len(wire) :
        IF config.mode = "relay" /\ TruthyStr(config.relay_url)
            THEN /\ wire[i].url = Url(<<config.relay_url>>, call.op)
                 /\ wire[i].auth = NoAuth
                 /\ IF TruthyStr(config.relay_token)
                       THEN /\ "Authorization" \in DOMAIN wire[i].headers
                            /\ wire[i].headers["Authorization"]
                                  = <<"Bearer ", config.relay_token>>
                       ELSE "Authorization" \notin DOMAIN wire[i].headers
            ELSE /\ wire[i].url = Url(DirectBaseUrl(config), call.op)
                 /\ "Authorization" \notin DOMAIN wire[i].headers
                 /\ wire[i].auth = IF config.username # ""
                                      THEN BasicAuth(config.username, config.password)
                                      ELSE NoAuth

(***************************************************************************)
(* Properties of the grid decoder                                          *)
(***************************************************************************)
\* the text as written: its header line and its data lines
RawLines == Split(text, "\n")
HeaderLine == RawLines[2]
DataLines == Drop(RawLines, 2)

NonBlank(line) == \E i \in 1..Len(line) : line[i] \notin Whitespace

NonBlankLines == SelectSeq(DataLines, NonBlank)

\* the lines as the decoder gets them: the text is trimmed as a whole, so the
\* last non-blank line has lost its trailing whitespace
ScannedHeader == IF NonBlankLines = <<>> THEN RStrip(HeaderLine) ELSE HeaderLine

ScannedLine(r) ==
    IF r = Len(NonBlankLines) THEN RStrip(NonBlankLines[r]) ELSE NonBlankLines[r]

Distinct(s) == \A i, j \in 1..Len(s) : s[i] = s[j] => i = j

Min(S) == CHOOSE x \in S : \A y \in S : x <= y

\* the quoted stretches of a line, found by matching each opening delimiter
\* with the next occurrence of the same character: pairs <<open, close>>
RECURSIVE ClosedRegions(_, _, _)
ClosedRegions(line, from, delims) ==
    LET opens == {j \in from..Len(line) : line[j] \in delims}
    IN  IF opens = {} THEN {}
        ELSE LET j == Min(opens)
                 closes == {k \in (j + 1)..Len(line) : line[k] = line[j]}
             IN  IF closes = {} THEN {}
                 ELSE {<<j, Min(closes)>>}
                        \cup ClosedRegions(line, Min(closes) + 1, delims)

\* the scanner ended a token at position i of the line
HeaderSplitAt(line, i) ==
    Len(HeaderScan(SubSeq(line, 1, i)).headers)
        > Len(HeaderScan(SubSeq(line, 1, i - 1)).headers)

RowSplitAt(line, i) ==
    Len(RowScan(SubSeq(line, 1, i)).values)
        > Len(RowScan(SubSeq(line, 1, i - 1)).values)

\* C8 as stated: every grid text decodes to a grid with one row per data
\* line, each row having as many keys as the header has columns.
C8_GridShape ==
    gpc = "decoded" =>
        /\ grid.tag = "grid"
        /\ Len(grid.rows) = Len(NonBlankLines)
        /\ \A r \in 1..Len(grid.rows) :
              Cardinality(DOMAIN grid.rows[r]) = Len(grid.cols)

\* C8, amended: a text with a non-blank header line or a non-blank data line
\* decodes to a grid with exactly one row per non-blank data line; each row
\* has one key per distinct column name (N keys when the N names differ), and
\* a column whose position is past the line's last token is None.
C8_GridShapeAmended ==
    (gpc = "decoded" /\ (NonBlank(HeaderLine) \/ NonBlankLines # <<>>)) =>
        /\ grid.tag = "grid"
        /\ Len(grid.rows) = Len(NonBlankLines)
        /\ \A r \in 1..Len(grid.rows) :
              /\ Cardinality(DOMAIN grid.rows[r]) = Cardinality(Range(grid.cols))
              /\ Distinct(grid.cols) => Cardinality(DOMAIN grid.rows[r]) = Len(grid.cols)
              /\ \A i \in 1..Len(grid.cols) :
                    ( /\ i > Len(ParseValues(ScannedLine(r)))
                      /\ \A k \in (i + 1)..Len(grid.cols) : grid.cols[k] # grid.cols[i] )
                    => grid.rows[r][grid.cols[i]] = PyNone

\* two rows under two distinct columns, the second row one token short
C8_Witness ==
    /\ gpc = "decoded"
    /\ grid.tag = "grid"
    /\ Len(grid.cols) = 2
    /\ Distinct(grid.cols)
    /\ Len(grid.rows) = 2
    /\ grid.rows[2][grid.cols[2]] = PyNone
    /\ grid.rows[2][grid.cols[1]] # PyNone

\* C9: Quoting invariant. No token ends at a comma that lies inside a closed
\* double-quoted stretch of the header line, or inside a closed double-quoted
\* or backticked stretch of a data line; and a data line that is one quoted
\* text decodes, under a single column, to the one string between the quotes.
C9_QuotedCommaNeverSplits ==
    (gpc = "decoded" /\ grid.tag = "grid") =>
        /\ \A reg \in ClosedRegions(HeaderLine, 1, {DQuote}) :
              \A i \in reg[1]..reg[2] : ~HeaderSplitAt(HeaderLine, i)
        /\ \A r \in 1..Len(NonBlankLines) :
              LET line == NonBlankLines[r]
              IN  /\ \A reg \in ClosedRegions(line, 1, {DQuote, Backtick}) :
                        \A i \in reg[1]..reg[2] : ~RowSplitAt(line, i)
                  /\ ( /\ Len(grid.cols) = 1
                       /\ Len(line) >= 2
                       /\ ClosedRegions(line, 1, {DQuote, Backtick}) = {<<1, Len(line)>>} )
                     => grid.rows[r][grid.cols[1]] = PyStr(SubSeq(line, 2, Len(line) - 1))

\* a quoted cell with a comma in it, decoded under the one column
C9_Witness ==
    /\ gpc = "decoded"
    /\ grid.tag = "grid"
    /\ HeaderLine = <<"a">>
    /\ DataLines = <<<<DQuote, "a", ",", DQuote>>>>
    /\ grid.cols = <<<<"a">>>>
    /\ Len(grid.rows) = 1
    /\ grid.rows[1][<<"a">>] = PyStr(<<"a", ",">>)

\* the header tokens of a header line without double quotes: the pieces
\* between commas, trimmed; an empty last piece is no token
RECURSIVE StripAll(_)
StripAll(pieces) ==
    IF pieces = <<>> THEN <<>> ELSE <<Strip(Head(pieces))>> \o StripAll(Tail(pieces))

PlainHeaderTokens(line) ==
    LET pieces == Split(line, ",")
    IN  IF pieces[Len(pieces)] = <<>>
            THEN StripAll(SubSeq(pieces, 1, Len(pieces) - 1))
            ELSE StripAll(pieces)

\* C10 as stated: the column names are unique and every row's key set equals
\* the set of column names.
C10_GridInvariant ==
    (gpc = "decoded" /\ grid.tag = "grid") =>
        /\ Distinct(grid.cols)
        /\ \A r \in 1..Len(grid.rows) : DOMAIN grid.rows[r] = Range(grid.cols)

\* C10, amended: every row's key set equals the set of column names; the
\* columns are the header's tokens in header order, a repeated token staying
\* repeated, so the names are unique exactly when the header's tokens are.
C10_GridInvariantAmended ==
    (gpc = "decoded" /\ grid.tag = "grid") =>
        /\ \A r \in 1..Len(grid.rows) : DOMAIN grid.rows[r] = Range(grid.cols)
        /\ DQuote \notin Range(HeaderLine) => grid.cols = PlainHeaderTokens(ScannedHeader)

\* a repeated column name, and a row with a value under it
C10_Witness ==
    /\ gpc = "decoded"
    /\ grid.tag = "grid"
    /\ grid.cols = <<<<"a">>, <<"a">>>>
    /\ Len(grid.rows) = 1
    /\ DOMAIN grid.rows[1] = {<<"a">>}
    /\ grid.rows[1][<<"a">>] # PyNone

(***************************************************************************)
(* Properties of the scalar decoder                                        *)
(***************************************************************************)
KnownPrefixes ==
    {<<"r", ":">>, <<"n", ":">>, <<"d", ":">>, <<"t", ":">>, <<"t", "s", ":">>, <<"s", ":">>}

Surrounded(c, q) == c # <<>> /\ c[1] = q /\ c[Len(c)] = q

\* a cell none of the rules 1-8 speaks of
Unrecognised(c) ==
    /\ c # <<>>
    /\ c # <<"N">>
    /\ ~Surrounded(c, DQuote)
    /\ ~Surrounded(c, Backtick)
    /\ c # <<"m", ":">>
    /\ c # CheckMark
    /\ \A p \in KnownPrefixes : ~StartsWith(c, p)

\* what stands between n: and the first space
NumericPart(c) == Split1(Drop(c, 2), " ")[1]

\* C11: The scalar decoder gives a value for every cell and never raises; a
\* cell with an unrecognised prefix, and an n: cell whose numeric part is not
\* a number, comes back as the original text unchanged.
C11_DecoderTotal ==
    spc = "decoded" =>
        /\ scalar.tag \in {"None", "str", "bool", "float", "dict"}
        /\ Unrecognised(cell) => scalar = PyStr(cell)
        /\ (StartsWith(cell, <<"n", ":">>) /\ ~IsFloatLiteral(NumericPart(cell)))
              => scalar = PyStr(cell)

\* the cell n:x has been decoded
C11_Witness ==
    /\ spc = "decoded"
    /\ cell = <<"n", ":", "x">>
    /\ scalar = PyStr(<<"n", ":", "x">>)

\* C18: A cell that starts with d:, t: or ts: decodes to the cell text with
\* exactly that prefix removed.
C18_DatePrefixStripped ==
    spc = "decoded" =>
        /\ StartsWith(cell, <<"d", ":">>) => scalar = PyStr(Drop(cell, 2))
        /\ StartsWith(cell, <<"t", ":">>) => scalar = PyStr(Drop(cell, 2))
        /\ StartsWith(cell, <<"t", "s", ":">>) => scalar = PyStr(Drop(cell, 3))

(***************************************************************************)
(* Failure of the grid decoder                                             *)
(***************************************************************************)
NonEmpty(line) == line # <<>>

\* what the decoder gives when it gives no grid (line 155)
InvalidGrid == [tag |-> "error", error |-> "Invalid Zinc response", raw |-> text]

IsGrid(g) == g.tag = "grid" /\ {"meta", "cols", "rows"} \subseteq DOMAIN g

\* C12: decodeGrid fails exactly when the body has fewer than two non-empty
\* lines; then no grid is produced, and in every other case a grid with meta,
\* columns and rows is produced.
C12_FailsOnFewLines ==
    gpc = "decoded" =>
        IF Len(SelectSeq(RawLines, NonEmpty)) < 2
            THEN grid = InvalidGrid
            ELSE IsGrid(grid)

\* C12 amended: the lines that count are the lines with a character that is
\* not whitespace
C12_FailsOnFewLinesAmended ==
    gpc = "decoded" =>
        IF Len(SelectSeq(RawLines, NonBlank)) < 2
            THEN grid = InvalidGrid
            ELSE IsGrid(grid)

\* a body whose second line is one space has been refused
C12_Witness ==
    /\ gpc = "decoded"
    /\ text = GridText(<<" ">>, <<>>)
    /\ grid = InvalidGrid

(***************************************************************************)
(* Row assembly                                                            *)
(***************************************************************************)
\* the value the code computes for position i of a line's tokens
ValueAt(tokens, i) == IF i <= Len(tokens) THEN ParseZincValue(tokens[i]) ELSE PyNone

\* C17: Row assembly is positional: in every row the i-th header column holds
\* the decoded i-th token of the line, Null when the line has no i-th token,
\* and tokens beyond the header count appear under no column.
C17_RowPositional ==
    (gpc = "decoded" /\ grid.tag = "grid") =>
        \A r \in 1..Len(NonBlankLines) :
            LET tokens == ParseValues(ScannedLine(r))
                row == grid.rows[r]
            IN  /\ DOMAIN row = Range(grid.cols)
                /\ \A i \in 1..Len(grid.cols) : row[grid.cols[i]] = ValueAt(tokens, i)

\* C17 amended: the same for every column whose name does not come again
\* later in the header
C17_RowPositionalAmended ==
    (gpc = "decoded" /\ grid.tag = "grid") =>
        \A r \in 1..Len(NonBlankLines) :
            LET tokens == ParseValues(ScannedLine(r))
                row == grid.rows[r]
            IN  /\ DOMAIN row = Range(grid.cols)
                /\ \A i \in 1..Len(grid.cols) :
                       (\A k \in (i + 1)..Len(grid.cols) : grid.cols[k] # grid.cols[i])
                           => row[grid.cols[i]] = ValueAt(tokens, i)

\* the header a,a and the line a have been decoded: the one token of the line
\* is lost to the second column a, which has no token
C17_Witness ==
    /\ gpc = "decoded"
    /\ grid.tag = "grid"
    /\ grid.cols = << <<"a">>, <<"a">> >>
    /\ NonBlankLines = << <<"a">> >>
    /\ grid.rows = << (<<"a">> :> PyNone) >>

(***************************************************************************)
(* The two flags of the row scanner                                        *)
(***************************************************************************)
\* the scanner's state after the first n characters of a line
ScanAfter(line, n) == RowScan(SubSeq(line, 1, n))

\* the character is appended to the current token and nothing else changes
KeptAsOrdinary(before, char, after) ==
    after = [before EXCEPT !.current_value = Append(before.current_value, char)]

\* C19: While a data line is scanned the flags in_quotes and in_backticks are
\* never both true; a double quote met inside backticks and a backtick met
\* inside double quotes are kept as ordinary characters and toggle nothing; a
\* comma splits exactly when both flags are false.
C19_FlagsExclusive ==
    gpc = "decoded" =>
        \A r \in 1..Len(NonBlankLines) :
            LET line == ScannedLine(r)
            IN  /\ \A n \in 0..Len(line) :
                       ~(ScanAfter(line, n).in_quotes /\ ScanAfter(line, n).in_backticks)
                /\ \A n \in 1..Len(line) :
                       LET before == ScanAfter(line, n - 1)
                           after == ScanAfter(line, n)
                           char == line[n]
                       IN  /\ (char = DQuote /\ before.in_backticks)
                               => KeptAsOrdinary(before, char, after)
                           /\ (char = Backtick /\ before.in_quotes)
                               => KeptAsOrdinary(before, char, after)
                           /\ (Len(after.values) = Len(before.values) + 1)
                               <=> (char = "," /\ ~before.in_quotes /\ ~before.in_backticks)
                           /\ Len(after.values) \in {Len(before.values), Len(before.values) + 1}

\* a line with a double quote and a comma after an opening backtick has been
\* decoded to one value
C19_Witness ==
    /\ gpc = "decoded"
    /\ grid.tag = "grid"
    /\ NonBlankLines = << <<Backtick, DQuote, ",">> >>
    /\ grid.cols = << <<"a">> >>
    /\ grid.rows = << (<<"a">> :> PyStr(<<Backtick, DQuote, ",">>)) >>

(***************************************************************************)
(* Validation, decoding and errors of execute_op                           *)
(***************************************************************************)
Rejected ==
    /\ pc = "done"
    /\ wire = <<>>
    /\ replies = <<>>
    /\ result = Raised("ValueError", [text |-> <<"hisRead requires id and range parameters">>])

\* the first request is a GET with whichever of id and range the call gave
SentHisRead ==
    /\ wire # <<>>
    /\ wire[1].method = "GET"
    /\ wire[1].url = Url(base_url, "hisRead")
    /\ wire[1].body = NoBody
    /\ DOMAIN wire[1].query = DOMAIN call.params.dict \cap {"id", "range"}
    /\ \A k \in DOMAIN wire[1].query : wire[1].query[k] = call.params.dict[k]
    /\ (pc = "done" => result.ok \/ result.exc # "ValueError")

\* C13: hisRead is rejected with the missing-parameter error, before any
\* request is sent, only when params is absent; with a present map, an empty
\* one included, a GET is sent that carries whichever of id and range are
\* present and nothing else.
C13_HisReadValidation ==
    (call.op = "hisRead" /\ pc # "idle") =>
        IF ~call.params.present THEN Rejected ELSE SentHisRead

\* C13 amended: an empty map is rejected like an absent one
C13_HisReadValidationAmended ==
    (call.op = "hisRead" /\ pc # "idle") =>
        IF ~call.params.present \/ DOMAIN call.params.dict = {}
            THEN Rejected
            ELSE SentHisRead

\* hisRead with an empty map has been refused
C13_Witness ==
    /\ call.op = "hisRead"
    /\ call.params = SomeParams(EmptyMap)
    /\ Rejected

\* the reply that ended the call
LastReply == replies[Len(replies)]

Succeeded == pc = "done" /\ replies # <<>> /\ IsStatus(LastReply, 200)

IsZincReply(reply) ==
    reply.content_type = "text/zinc" \/ StartsWith(reply.body, <<"v", "e", "r", ":">>)

\* C14: A successful response is decoded by content type: application/json is
\* parsed as JSON; otherwise a text/zinc content type or a body that begins
\* with ver: goes to the Zinc grid decoder; anything else comes back as the
\* opaque result {raw: body, format: "unknown"}.
C14_DecodeByContentType ==
    Succeeded =>
        IF LastReply.content_type = "application/json"
            THEN /\ \/ result = Returned(JsonValue(LastReply.body))
                    \/ result = Raised("JSONDecodeError", [text |-> LastReply.body])
                 /\ LastReply.body = JsonBody => result.ok
        ELSE IF IsZincReply(LastReply)
            THEN result = Returned(ParseZincResponse(LastReply.body))
        ELSE result = Returned([tag |-> "unknown", raw |-> LastReply.body,
                                format |-> "unknown"])

\* C14 amended: the opaque result holds the body under the key response
C14_DecodeByContentTypeAmended ==
    Succeeded =>
        IF LastReply.content_type = "application/json"
            THEN /\ \/ result = Returned(JsonValue(LastReply.body))
                    \/ result = Raised("JSONDecodeError", [text |-> LastReply.body])
                 /\ LastReply.body = JsonBody => result.ok
        ELSE IF IsZincReply(LastReply)
            THEN result = Returned(ParseZincResponse(LastReply.body))
        ELSE result = Returned([tag |-> "unknown", response |-> LastReply.body,
                                format |-> "unknown"])

\* a text/plain reply that does not begin with ver: has been returned opaque
C14_Witness ==
    /\ Succeeded
    /\ LastReply.content_type = "text/plain"
    /\ LastReply.body = PlainBody
    /\ result.ok
    /\ result.value.tag = "unknown"
    /\ result.value.response = PlainBody

FailedStatus ==
    pc = "done" /\ replies # <<>> /\ LastReply.kind = "http" /\ LastReply.status \notin 200..299

HttpStatusError(reply) == Raised("Exception", [status |-> reply.status, text |-> reply.body])

\* C15: Every response whose final status is not 2xx makes the call fail with
\* an HTTP status error that carries the status code and the body; none is
\* returned as a success or reported without status and body.
C15_StatusErrorCarriesAll ==
    FailedStatus => result = HttpStatusError(LastReply)

\* C15 amended: status 415 fails with a fixed message instead
C15_StatusErrorAmended ==
    FailedStatus =>
        /\ ~result.ok
        /\ LastReply.status # 415 => result = HttpStatusError(LastReply)
        /\ LastReply.status = 415 =>
               result = Raised("Exception",
                               [text |-> <<"Server expects different content type">>])

\* a call has ended on a 415 reply
C15_Witness ==
    /\ FailedStatus
    /\ LastReply.status = 415
    /\ ~result.ok
    /\ "status" \notin DOMAIN result.msg

\* C20: watchSub, watchPoll, watchUnsub and pointWrite called with absent or
\* empty params send exactly one GET without parameters and never the POST;
\* a 405 answer to that GET reaches the caller as an error.
C20_NoFallbackWithoutParams ==
    ( /\ call.op \in FallbackOps
      /\ pc # "idle"
      /\ (~call.params.present \/ DOMAIN call.params.dict = {}) )
    => /\ Len(wire) = 1
       /\ wire[1].method = "GET"
       /\ wire[1].url = Url(base_url, call.op)
       /\ wire[1].query = EmptyMap
       /\ wire[1].body = NoBody
       /\ (replies # <<>> => pc = "done" /\ Len(replies) = 1)
       /\ (replies # <<>> /\ IsStatus(replies[1], 405) =>
              result = Raised("Exception", [status |-> 405, text |-> replies[1].body]))

\* watchSub with an empty map was answered 405
C20_Witness ==
    /\ pc = "done"
    /\ call.op = "watchSub"
    /\ call.params = SomeParams(EmptyMap)
    /\ Len(wire) = 1
    /\ IsStatus(replies[1], 405)
    /\ ~result.ok

(***************************************************************************)
(* Racing callers                                                          *)
(***************************************************************************)
\* the endpoint and the auth that go with a mode
MatchesMode(req, cfg, op) ==
    IF cfg.mode = "relay" /\ TruthyStr(cfg.relay_url)
        THEN /\ req.url = Url(<<cfg.relay_url>>, op)
             /\ req.auth = NoAuth
        ELSE /\ req.url = Url(DirectBaseUrl(cfg), op)
             /\ "Authorization" \notin DOMAIN req.headers
             /\ req.auth = IF cfg.username # ""
                              THEN BasicAuth(cfg.username, cfg.password)
                              ELSE NoAuth

\* C16: However the calls of several callers that all fail at connection
\* level in Hybrid mode are ordered, the mode goes from Hybrid to Relay at
\* most once, and every request is sent to the endpoint and with the auth of
\* the mode in force when it is sent.
C16_OneTransitionConsistentRequests ==
    /\ [](switched <= 1)
    /\ [][ /\ config'.mode # config.mode
              => (config.mode = "hybrid" /\ config'.mode = "relay")
           /\ (Len(wire') > Len(wire))
              => MatchesMode(wire'[Len(wire')], config, call'.op) ]_vars

\* two calls have failed at connection level, one after the other, in Hybrid
\* mode with a relay configured
C16_Witness ==
    /\ failed = 2
    /\ pc = "done"
    /\ TruthyStr(config.relay_url)
    /\ Len(wire) = 1
    /\ ConnectFailed(replies[1])
    /\ result = Raised("ConnectError", [text |-> <<>>])

====
